---- MODULE Spec2Model ----
(***************************************************************************)
(* Model of app/src-tauri/src/lib.rs: the onboarding state store, the      *)
(* config text store and the shutdown cleanup of the background service.   *)
(*                                                                         *)
(* A Rust String is a sequence of characters.  A character is the string   *)
(* of length one that holds it when TLA+ can write it (printable ASCII     *)
(* characters, "\t", "\n", "\f", "\r") and the string of its name, such as  *)
(* "U+0008" or "U+1F600", when not: Chr gives the character of a code      *)
(* point.  A file on disk                                                  *)
(* is a record [kind, utf8, text, r, w]; the text of onboarding.json is    *)
(* kept as the sequence of its JSON tokens (the white space between        *)
(* tokens, which the pretty printer emits and the parser skips, is not     *)
(* represented; the first characters of a token whose end is missing are   *)
(* a token "fragment"), the text of .env and service.pid as a sequence of  *)
(* characters; r and w say whether the operating system lets the caller    *)
(* read and write the file.                                                *)
(*                                                                         *)
(* Environment: a file operation fails for the shape of the file system    *)
(* (an unresolvable home directory, a path that is a directory, a regular  *)
(* file in place of ~/.macbot, bytes that are not UTF-8), for the access   *)
(* the operating system grants the caller (perms: to the home directory,   *)
(* to ~/.macbot, and the bits its umask takes from what it creates; r and  *)
(* w of a file; a privileged caller has all access), and, for a write,     *)
(* for what the device refuses (no inode for a directory or a file that    *)
(* has to be created; no room, by a full disk, a quota or a file size      *)
(* limit, for the whole content, which is then cut short, possibly within  *)
(* a character of several bytes).  A SIGTERM that reaches the application  *)
(* ends it; so does the SIGXFSZ of a file size limit, unless the           *)
(* application was started with that signal ignored.                       *)
(***************************************************************************)
EXTENDS Integers, Sequences, FiniteSets, TLC

VARIABLES
    home,            \* whether dirs::home_dir() is Some
    macbotDir,       \* what <home>/.macbot is: "absent", "dir" or "file"
    onboardingFile,  \* <home>/.macbot/onboarding.json
    envFile,         \* <home>/.macbot/.env
    pidFile,         \* <home>/.macbot/service.pid
    perms,           \* the caller's access: [home, dir, mask]
    kills,           \* the kill commands run so far: <<[arg, outcome], ...>>
    pc,              \* where stop_service_if_running is: "idle", "kill", "remove"
    pid,             \* its local pid, once parsed
    result,          \* the last operation: [op, arg, ok, val, err]
    prev             \* the operation before it: [op, ok]

vars == <<home, macbotDir, onboardingFile, envFile, pidFile, perms, kills, pc, pid,
          result, prev>>

(***************************************************************************)
(* Bounds                                                                  *)
(***************************************************************************)
\* documents offered to write_onboarding_state: Doc(0) .. Doc(MaxDoc)
MaxDoc == 3
\* config strings offered to write_config: length at most MaxCfgLen
MaxCfgLen == 2
\* service.pid contents: every string over PidChars of length at most MaxPidLen
MaxPidLen == 2
\* a cleanup begins while fewer than MaxKills kill commands have been run
MaxKills == 2
\* a write that the device cuts short leaves at most MaxPartial whole units
\* of the content (tokens of onboarding.json, characters of .env) in the
\* file, and any part of the unit after them
MaxPartial == 1

(***************************************************************************)
(* Strings                                                                 *)
(***************************************************************************)
\* all sequences over S of length at most n
SeqsUpTo(S, n) == UNION {[1..k -> S] : k \in 0..n}

Digits == <<"0", "1", "2", "3", "4", "5", "6", "7", "8", "9">>

DigitChars == {Digits[i] : i \in 1..10}

DigitVal(c) == (CHOOSE i \in 1..10 : Digits[i] = c) - 1

\* the hexadecimal digits, as serde_json writes them and as it also reads them
HexLower == <<"0", "1", "2", "3", "4", "5", "6", "7", "8", "9",
              "a", "b", "c", "d", "e", "f">>

HexUpper == <<"0", "1", "2", "3", "4", "5", "6", "7", "8", "9",
              "A", "B", "C", "D", "E", "F">>

HexChars == {HexLower[i] : i \in 1..16} \cup {HexUpper[i] : i \in 1..16}

HexVal(c) == (CHOOSE i \in 1..16 : HexLower[i] = c \/ HexUpper[i] = c) - 1

\* the characters U+0020 .. U+007E (U+0060 by its name)
Ascii ==
    <<" ", "!", "\"", "#", "$", "%", "&", "'", "(", ")", "*", "+", ",", "-", ".", "/",
      "0", "1", "2", "3", "4", "5", "6", "7", "8", "9", ":", ";", "<", "=", ">", "?",
      "@", "A", "B", "C", "D", "E", "F", "G", "H", "I", "J", "K", "L", "M", "N", "O",
      "P", "Q", "R", "S", "T", "U", "V", "W", "X", "Y", "Z", "[", "\\", "]", "^", "_",
      "U+0060", "a", "b", "c", "d", "e", "f", "g", "h", "i", "j", "k", "l", "m", "n", "o",
      "p", "q", "r", "s", "t", "u", "v", "w", "x", "y", "z", "{", "|", "}", "~">>

\* the name of a code point: its hexadecimal digits, four at least
RECURSIVE HexName(_, _)
HexName(n, width) ==
    IF n = 0 /\ width <= 0 THEN ""
    ELSE HexName(n \div 16, width - 1) \o HexUpper[(n % 16) + 1]

\* the characters U+0000 .. U+001F
Controls ==
    <<"U+0000", "U+0001", "U+0002", "U+0003", "U+0004", "U+0005", "U+0006", "U+0007",
      "U+0008", "\t", "\n", "U+000B", "\f", "\r", "U+000E", "U+000F",
      "U+0010", "U+0011", "U+0012", "U+0013", "U+0014", "U+0015", "U+0016", "U+0017",
      "U+0018", "U+0019", "U+001A", "U+001B", "U+001C", "U+001D", "U+001E", "U+001F">>

\* the character of code point n
Chr(n) ==
    IF n < 32 THEN Controls[n + 1]
    ELSE IF n <= 126 THEN Ascii[n - 31]
    ELSE "U+" \o HexName(n, 4)

ControlChars == {Controls[i] : i \in 1..32}

ControlCode(c) == (CHOOSE i \in 1..32 : Controls[i] = c) - 1

\* the strings the structures of lib.rs name
S_welcome == <<"w", "e", "l", "c", "o", "m", "e">>
S_openai == <<"o", "p", "e", "n", "a", "i">>
S_Mail == <<"M", "a", "i", "l">>
S_Calendar == <<"C", "a", "l", "e", "n", "d", "a", "r">>
S_Reminders == <<"R", "e", "m", "i", "n", "d", "e", "r", "s">>
S_Notes == <<"N", "o", "t", "e", "s">>
S_Safari == <<"S", "a", "f", "a", "r", "i">>
S_version == <<"v", "e", "r", "s", "i", "o", "n">>
S_completed == <<"c", "o", "m", "p", "l", "e", "t", "e", "d">>
S_current_step == <<"c", "u", "r", "r", "e", "n", "t", "_", "s", "t", "e", "p">>
S_data == <<"d", "a", "t", "a">>
S_permissions == <<"p", "e", "r", "m", "i", "s", "s", "i", "o", "n", "s">>
S_api_key == <<"a", "p", "i", "_", "k", "e", "y">>
S_telegram == <<"t", "e", "l", "e", "g", "r", "a", "m">>
S_dev_tools == <<"d", "e", "v", "_", "t", "o", "o", "l", "s">>
S_accessibility == <<"a", "c", "c", "e", "s", "s", "i", "b", "i", "l", "i", "t", "y">>
S_automation == <<"a", "u", "t", "o", "m", "a", "t", "i", "o", "n">>
S_provider == <<"p", "r", "o", "v", "i", "d", "e", "r">>
S_configured == <<"c", "o", "n", "f", "i", "g", "u", "r", "e", "d">>
S_verified == <<"v", "e", "r", "i", "f", "i", "e", "d">>
S_skipped == <<"s", "k", "i", "p", "p", "e", "d">>
S_installed == <<"i", "n", "s", "t", "a", "l", "l", "e", "d">>
S_homebrew == <<"h", "o", "m", "e", "b", "r", "e", "w">>
S_python == <<"p", "y", "t", "h", "o", "n">>
S_node == <<"n", "o", "d", "e">>
S_npx == <<"n", "p", "x">>
S_done == <<"d", "o", "n", "e">>

(***************************************************************************)
(* The data model, lib.rs lines 6-105                                      *)
(***************************************************************************)
DevToolInfo(installed, version) == [installed |-> installed, version |-> version]

NpxInfo(installed) == [installed |-> installed]

\* impl Default for DevToolsData
DevToolsDefault ==
    [homebrew |-> DevToolInfo(FALSE, <<>>),
     python |-> DevToolInfo(FALSE, <<>>),
     node |-> DevToolInfo(FALSE, <<>>),
     npx |-> NpxInfo(FALSE),
     skipped |-> FALSE]

\* the five automation.insert calls of OnboardingState::default
DefaultAutomation ==
    [k \in {S_Mail, S_Calendar, S_Reminders, S_Notes, S_Safari} |-> FALSE]

\* mutant: the insert of Safari is missing
OnboardingDefault_NoSafari ==
    [version |-> 1,
     completed |-> FALSE,
     current_step |-> S_welcome,
     data |->
        [permissions |->
            [accessibility |-> FALSE,
             automation |-> [k \in {S_Mail, S_Calendar, S_Reminders, S_Notes} |-> FALSE]],
         api_key |-> [provider |-> S_openai, configured |-> FALSE, verified |-> FALSE],
         telegram |-> [configured |-> FALSE, skipped |-> FALSE],
         dev_tools |-> DevToolsDefault]]

\* impl Default for OnboardingState
OnboardingDefault ==
    [version |-> 1,
     completed |-> FALSE,
     current_step |-> S_welcome,
     data |->
        [permissions |-> [accessibility |-> FALSE, automation |-> DefaultAutomation],
         api_key |-> [provider |-> S_openai, configured |-> FALSE, verified |-> FALSE],
         telegram |-> [configured |-> FALSE, skipped |-> FALSE],
         dev_tools |-> DevToolsDefault]]

(***************************************************************************)
(* serde_json::to_string_pretty(&state), lib.rs line 163.  The derived     *)
(* Serialize writes a struct as an object with its fields in declaration   *)
(* order, and a HashMap as an object with its entries in iteration order.  *)
(***************************************************************************)
Tok(t) == [t |-> t, v |-> <<>>]

StrTok(raw) == [t |-> "str", v |-> raw]

NumTok(d) == [t |-> "num", v |-> d]

\* \u00xx for the code n of a character below U+0020
ControlEscape(n) ==
    <<"\\", "u", "0", "0", HexLower[(n \div 16) + 1], HexLower[(n % 16) + 1]>>

\* the text between the quotes of a JSON string, for one character: the
\* quote, the backslash and the characters below U+0020 are escaped, these
\* with a letter when JSON has one and as \u00xx when not
EscapeChar(c) ==
    IF c = "\"" THEN <<"\\", "\"">>
    ELSE IF c = "\\" THEN <<"\\", "\\">>
    ELSE IF c = "U+0008" THEN <<"\\", "b">>
    ELSE IF c = "\f" THEN <<"\\", "f">>
    ELSE IF c = "\n" THEN <<"\\", "n">>
    ELSE IF c = "\r" THEN <<"\\", "r">>
    ELSE IF c = "\t" THEN <<"\\", "t">>
    ELSE IF c \in ControlChars THEN ControlEscape(ControlCode(c))
    ELSE <<c>>

RECURSIVE Escape(_)
Escape(s) == IF s = <<>> THEN <<>> ELSE EscapeChar(Head(s)) \o Escape(Tail(s))

SerStr(s) == <<StrTok(Escape(s))>>

SerBool(b) == <<Tok(IF b THEN "true" ELSE "false")>>

\* the decimal digits of n >= 0, most significant first
RECURSIVE Itoa(_)
Itoa(n) ==
    IF n < 10 THEN <<Digits[n + 1]>>
    ELSE Itoa(n \div 10) \o <<Digits[(n % 10) + 1]>>

SerU32(n) == <<NumTok(Itoa(n))>>

Member(name, valueToks) == <<StrTok(Escape(name)), Tok(":")>> \o valueToks

RECURSIVE JoinMembers(_)
JoinMembers(ms) ==
    IF Len(ms) = 1 THEN Head(ms)
    ELSE Head(ms) \o <<Tok(",")>> \o JoinMembers(Tail(ms))

\* ms: the members' token sequences, in the order written
SerObject(ms) ==
    IF ms = <<>> THEN <<Tok("{"), Tok("}")>>
    ELSE <<Tok("{")>> \o JoinMembers(ms) \o <<Tok("}")>>

\* the iteration orders a HashMap with the keys of m can have
KeyOrders(m) ==
    LET n == Cardinality(DOMAIN m)
    IN  {o \in [1..n -> DOMAIN m] : \A i, j \in 1..n : o[i] = o[j] => i = j}

SerAutomation(m, order) ==
    SerObject([i \in 1..Len(order) |-> Member(order[i], SerBool(m[order[i]]))])

SerDevToolInfo(d) ==
    SerObject(<<Member(S_installed, SerBool(d.installed)),
                Member(S_version, SerStr(d.version))>>)

SerNpxInfo(d) == SerObject(<<Member(S_installed, SerBool(d.installed))>>)

SerDevToolsData(d) ==
    SerObject(<<Member(S_homebrew, SerDevToolInfo(d.homebrew)),
                Member(S_python, SerDevToolInfo(d.python)),
                Member(S_node, SerDevToolInfo(d.node)),
                Member(S_npx, SerNpxInfo(d.npx)),
                Member(S_skipped, SerBool(d.skipped))>>)

SerPermissionsData(p, order) ==
    SerObject(<<Member(S_accessibility, SerBool(p.accessibility)),
                Member(S_automation, SerAutomation(p.automation, order))>>)

SerApiKeyData(a) ==
    SerObject(<<Member(S_provider, SerStr(a.provider)),
                Member(S_configured, SerBool(a.configured)),
                Member(S_verified, SerBool(a.verified))>>)

SerTelegramData(t) ==
    SerObject(<<Member(S_configured, SerBool(t.configured)),
                Member(S_skipped, SerBool(t.skipped))>>)

SerOnboardingData(d, order) ==
    SerObject(<<Member(S_permissions, SerPermissionsData(d.permissions, order)),
                Member(S_api_key, SerApiKeyData(d.api_key)),
                Member(S_telegram, SerTelegramData(d.telegram)),
                Member(S_dev_tools, SerDevToolsData(d.dev_tools))>>)

\* order: the iteration order of state.data.permissions.automation
SerOnboardingState(state, order) ==
    SerObject(<<Member(S_version, SerU32(state.version)),
                Member(S_completed, SerBool(state.completed)),
                Member(S_current_step, SerStr(state.current_step)),
                Member(S_data, SerOnboardingData(state.data, order))>>)

(***************************************************************************)
(* serde_json::from_str::<OnboardingState>(&content), lib.rs line 149.     *)
(* The text is read into a JSON value (objects keep their members in the   *)
(* order written, duplicates included) and the value is decoded as the     *)
(* derived Deserialize decodes it.  A string is read in one of two ways:   *)
(* where a field, a key of a struct or a key of the map is expected, its   *)
(* escapes are decoded and must give characters; in the value of a member  *)
(* no struct names, which is skipped, its escapes need only be well        *)
(* formed.  Only success or failure is kept: the error of lib.rs is the    *)
(* rendered serde_json message.                                            *)
(***************************************************************************)
\* the character an escape sequence \c stands for, c a single letter;
\* <<>> when \c is no such escape (\u, with its four digits, is UnicodeEscape)
UnescapeChar(c) ==
    IF c = "\"" THEN <<"\"">>
    ELSE IF c = "\\" THEN <<"\\">>
    ELSE IF c = "/" THEN <<"/">>
    ELSE IF c = "b" THEN <<"U+0008">>
    ELSE IF c = "f" THEN <<"\f">>
    ELSE IF c = "n" THEN <<"\n">>
    ELSE IF c = "r" THEN <<"\r">>
    ELSE IF c = "t" THEN <<"\t">>
    ELSE <<>>

\* the four hexadecimal digits raw[i] .. raw[i + 3]: [ok, n]
HexEscape(raw, i) ==
    IF i + 3 <= Len(raw) /\ \A k \in i..(i + 3) : raw[k] \in HexChars
    THEN [ok |-> TRUE,
          n |-> ((HexVal(raw[i]) * 16 + HexVal(raw[i + 1])) * 16
                    + HexVal(raw[i + 2])) * 16 + HexVal(raw[i + 3])]
    ELSE [ok |-> FALSE, n |-> 0]

\* The character two \u escapes h1 and h2 ([ok, n] each) write and the
\* length of what writes it, [ok, c, n]; follows: h2 is a \u escape right
\* after h1.  A code point from U+D800 to U+DBFF must be followed by a
\* second \u escape from U+DC00 to U+DFFF, and the two write one character
\* above U+FFFF; a code point from U+DC00 to U+DFFF on its own is an error.
Surrogates(h1, h2, follows) ==
    IF ~h1.ok THEN [ok |-> FALSE, c |-> "", n |-> 0]
    ELSE IF h1.n >= 56320 /\ h1.n <= 57343 THEN [ok |-> FALSE, c |-> "", n |-> 0]
    ELSE IF h1.n >= 55296 /\ h1.n <= 56319
    THEN IF follows /\ h2.ok /\ h2.n >= 56320 /\ h2.n <= 57343
         THEN [ok |-> TRUE,
               c |-> Chr(65536 + (h1.n - 55296) * 1024 + (h2.n - 56320)),
               n |-> 12]
         ELSE [ok |-> FALSE, c |-> "", n |-> 0]
    ELSE [ok |-> TRUE, c |-> Chr(h1.n), n |-> 6]

\* raw starts with \u: the character it writes and the length of what
\* writes it, [ok, c, n]
UnicodeEscape(raw) ==
    Surrogates(HexEscape(raw, 3), HexEscape(raw, 9),
               Len(raw) >= 8 /\ raw[7] = "\\" /\ raw[8] = "u")

\* the characters cs before the string r = [ok, s]
Prepend(cs, r) == IF r.ok THEN [ok |-> TRUE, s |-> cs \o r.s] ELSE r

RECURSIVE Unescape(_)
\* raw starts with the \u escape e = [ok, c, n]
UnescapeUnicode(raw, e) ==
    IF e.ok THEN Prepend(<<e.c>>, Unescape(SubSeq(raw, e.n + 1, Len(raw))))
    ELSE [ok |-> FALSE, s |-> <<>>]

\* raw: the text between the quotes.  The string it writes, [ok, s]: a
\* character below U+0020 may not stand in it unescaped.
Unescape(raw) ==
    IF raw = <<>> THEN [ok |-> TRUE, s |-> <<>>]
    ELSE IF Head(raw) \in ControlChars THEN [ok |-> FALSE, s |-> <<>>]
    ELSE IF Head(raw) = "\\"
    THEN IF Len(raw) < 2 THEN [ok |-> FALSE, s |-> <<>>]
         ELSE IF raw[2] = "u" THEN UnescapeUnicode(raw, UnicodeEscape(raw))
         ELSE IF UnescapeChar(raw[2]) = <<>> THEN [ok |-> FALSE, s |-> <<>>]
         ELSE Prepend(UnescapeChar(raw[2]), Unescape(SubSeq(raw, 3, Len(raw))))
    ELSE Prepend(<<Head(raw)>>, Unescape(Tail(raw)))

\* raw is the text of a string that is skipped: no character below U+0020,
\* every escape a known letter or \u with four hexadecimal digits, whatever
\* code point they write
RECURSIVE IgnoreStr(_)
IgnoreStr(raw) ==
    IF raw = <<>> THEN TRUE
    ELSE IF Head(raw) \in ControlChars THEN FALSE
    ELSE IF Head(raw) = "\\"
    THEN IF Len(raw) < 2 THEN FALSE
         ELSE IF raw[2] = "u"
         THEN HexEscape(raw, 3).ok /\ IgnoreStr(SubSeq(raw, 7, Len(raw)))
         ELSE UnescapeChar(raw[2]) # <<>> /\ IgnoreStr(SubSeq(raw, 3, Len(raw)))
    ELSE IgnoreStr(Tail(raw))

AllDigits(d) == \A i \in 1..Len(d) : d[i] \in DigitChars

\* an unsigned JSON integer: 0, or digits that do not start with 0
IsJsonUInt(d) == d # <<>> /\ AllDigits(d) /\ (Len(d) > 1 => d[1] # "0")

\* the part of a JSON number before its exponent: int (. digits+)?
IsJsonDecimal(u) ==
    LET dots == {i \in 1..Len(u) : u[i] = "."}
    IN  IF dots = {} THEN IsJsonUInt(u)
        ELSE LET p == CHOOSE i \in dots : \A j \in dots : i <= j
                 frac == SubSeq(u, p + 1, Len(u))
             IN  /\ IsJsonUInt(SubSeq(u, 1, p - 1))
                 /\ frac # <<>>
                 /\ AllDigits(frac)

\* the exponent of a JSON number, after its e or E: [+-]? digits+
IsJsonExponent(x) ==
    LET d == IF x # <<>> /\ x[1] \in {"+", "-"} THEN Tail(x) ELSE x
    IN  d # <<>> /\ AllDigits(d)

\* the JSON number grammar: -? int (. digits+)? ([eE] [+-]? digits+)?
IsJsonNumber(d) ==
    LET u == IF d # <<>> /\ d[1] = "-" THEN Tail(d) ELSE d
        es == {i \in 1..Len(u) : u[i] \in {"e", "E"}}
    IN  IF es = {} THEN IsJsonDecimal(u)
        ELSE LET p == CHOOSE i \in es : \A j \in es : i <= j
             IN  /\ IsJsonDecimal(SubSeq(u, 1, p - 1))
                 /\ IsJsonExponent(SubSeq(u, p + 1, Len(u)))

JNull == [k |-> "null"]

PFail == [ok |-> FALSE, v |-> JNull, i |-> 0]

POk(v, i) == [ok |-> TRUE, v |-> v, i |-> i]

\* one JSON value starting at token i of toks.  [ok, v, i: the next token]
RECURSIVE ParseValue(_, _), ParseMembers(_, _, _), ParseElements(_, _, _)
ParseValue(toks, i) ==
    IF i > Len(toks) THEN PFail
    ELSE LET tk == toks[i]
         IN  CASE tk.t = "true" -> POk([k |-> "bool", b |-> TRUE], i + 1)
               [] tk.t = "false" -> POk([k |-> "bool", b |-> FALSE], i + 1)
               [] tk.t = "null" -> POk(JNull, i + 1)
               [] tk.t = "num" ->
                    IF IsJsonNumber(tk.v) THEN POk([k |-> "num", d |-> tk.v], i + 1)
                    ELSE PFail
               [] tk.t = "str" ->
                    LET u == Unescape(tk.v)
                    IN  IF IgnoreStr(tk.v)
                        THEN POk([k |-> "str", s |-> u.s, strict |-> u.ok], i + 1)
                        ELSE PFail
               [] tk.t = "{" ->
                    IF i + 1 <= Len(toks) /\ toks[i + 1].t = "}"
                    THEN POk([k |-> "obj", m |-> <<>>], i + 2)
                    ELSE ParseMembers(toks, i + 1, <<>>)
               [] tk.t = "[" ->
                    IF i + 1 <= Len(toks) /\ toks[i + 1].t = "]"
                    THEN POk([k |-> "arr", a |-> <<>>], i + 2)
                    ELSE ParseElements(toks, i + 1, <<>>)
               [] OTHER -> PFail

\* "key" : value, then a comma and more members, or the closing brace
ParseMembers(toks, i, acc) ==
    IF i + 1 > Len(toks) \/ toks[i].t # "str" \/ toks[i + 1].t # ":" THEN PFail
    ELSE LET key == Unescape(toks[i].v)
             r == ParseValue(toks, i + 2)
         IN  IF ~IgnoreStr(toks[i].v) \/ ~r.ok \/ r.i > Len(toks) THEN PFail
             ELSE LET acc2 == Append(acc, [key |-> key.s, kok |-> key.ok, val |-> r.v])
                  IN  IF toks[r.i].t = "," THEN ParseMembers(toks, r.i + 1, acc2)
                      ELSE IF toks[r.i].t = "}"
                      THEN POk([k |-> "obj", m |-> acc2], r.i + 1)
                      ELSE PFail

\* value, then a comma and more elements, or the closing bracket
ParseElements(toks, i, acc) ==
    LET r == ParseValue(toks, i)
    IN  IF ~r.ok \/ r.i > Len(toks) THEN PFail
        ELSE LET acc2 == Append(acc, r.v)
             IN  IF toks[r.i].t = "," THEN ParseElements(toks, r.i + 1, acc2)
                 ELSE IF toks[r.i].t = "]"
                 THEN POk([k |-> "arr", a |-> acc2], r.i + 1)
                 ELSE PFail

\* the whole text is one value: anything after it is "trailing characters"
ParseDocument(toks) ==
    LET r == ParseValue(toks, 1)
    IN  IF r.ok /\ r.i = Len(toks) + 1 THEN r ELSE PFail

DFail == [ok |-> FALSE, v |-> JNull]

DOk(v) == [ok |-> TRUE, v |-> v]

DecodeBool(j) == IF j.k = "bool" THEN DOk(j.b) ELSE DFail

\* a String field: the escapes of the text must give characters
DecodeString(j) == IF j.k = "str" /\ j.strict THEN DOk(j.s) ELSE DFail

\* u32::MAX, 4294967295
U32MaxDigits == <<"4", "2", "9", "4", "9", "6", "7", "2", "9", "5">>

\* a <= b for digit strings of one length
RECURSIVE DigitsLeq(_, _)
DigitsLeq(a, b) ==
    IF a = <<>> THEN TRUE
    ELSE IF Head(a) # Head(b) THEN DigitVal(Head(a)) < DigitVal(Head(b))
    ELSE DigitsLeq(Tail(a), Tail(b))

\* the number a digit string writes
RECURSIVE Atoi(_)
Atoi(d) ==
    IF d = <<>> THEN 0
    ELSE Atoi(SubSeq(d, 1, Len(d) - 1)) * 10 + DigitVal(d[Len(d)])

\* a u32 is an unsigned integer literal no larger than u32::MAX; a negative
\* number, a fraction or a larger number is an error
DecodeU32(j) ==
    IF /\ j.k = "num"
       /\ IsJsonUInt(j.d)
       /\ \/ Len(j.d) < Len(U32MaxDigits)
          \/ Len(j.d) = Len(U32MaxDigits) /\ DigitsLeq(j.d, U32MaxDigits)
    THEN DOk(Atoi(j.d))
    ELSE DFail

Absent == [present |-> FALSE, val |-> JNull]

\* The values a JSON value gives to the fields `names` of a struct:
\* [ok, f], f[n] = [present, val].  An object gives them by name, ignores
\* the other members and may not name a field twice, and every key of it
\* is read as a string; an array gives them by position and may not be
\* longer than the struct.
StructFields(j, names) ==
    IF j.k = "obj"
    THEN LET idx(n) == {i \in 1..Len(j.m) : j.m[i].key = names[n]}
         IN  IF \/ \E i \in 1..Len(j.m) : ~j.m[i].kok
                \/ \E n \in 1..Len(names) : Cardinality(idx(n)) > 1
             THEN [ok |-> FALSE, f |-> <<>>]
             ELSE [ok |-> TRUE,
                   f |-> [n \in 1..Len(names) |->
                            IF idx(n) = {} THEN Absent
                            ELSE [present |-> TRUE,
                                  val |-> j.m[CHOOSE i \in idx(n) : TRUE].val]]]
    ELSE IF j.k = "arr" /\ Len(j.a) <= Len(names)
    THEN [ok |-> TRUE,
          f |-> [n \in 1..Len(names) |->
                   IF n <= Len(j.a) THEN [present |-> TRUE, val |-> j.a[n]]
                   ELSE Absent]]
    ELSE [ok |-> FALSE, f |-> <<>>]

AllPresent(s) == s.ok /\ \A n \in 1..Len(s.f) : s.f[n].present

DecodeDevToolInfo(j) ==
    LET s == StructFields(j, <<S_installed, S_version>>)
        a == DecodeBool(s.f[1].val)
        b == DecodeString(s.f[2].val)
    IN  IF AllPresent(s) /\ a.ok /\ b.ok THEN DOk(DevToolInfo(a.v, b.v)) ELSE DFail

DecodeNpxInfo(j) ==
    LET s == StructFields(j, <<S_installed>>)
        a == DecodeBool(s.f[1].val)
    IN  IF AllPresent(s) /\ a.ok THEN DOk(NpxInfo(a.v)) ELSE DFail

DecodeDevToolsData(j) ==
    LET s == StructFields(j, <<S_homebrew, S_python, S_node, S_npx, S_skipped>>)
        a == DecodeDevToolInfo(s.f[1].val)
        b == DecodeDevToolInfo(s.f[2].val)
        c == DecodeDevToolInfo(s.f[3].val)
        d == DecodeNpxInfo(s.f[4].val)
        e == DecodeBool(s.f[5].val)
    IN  IF AllPresent(s) /\ a.ok /\ b.ok /\ c.ok /\ d.ok /\ e.ok
        THEN DOk([homebrew |-> a.v, python |-> b.v, node |-> c.v, npx |-> d.v,
                  skipped |-> e.v])
        ELSE DFail

\* HashMap<String, bool>: an object whose values are booleans; a key written
\* twice keeps its last value
DecodeAutomation(j) ==
    IF j.k = "obj" /\ \A i \in 1..Len(j.m) : j.m[i].kok /\ j.m[i].val.k = "bool"
    THEN LET last(key) == CHOOSE i \in 1..Len(j.m) :
                             /\ j.m[i].key = key
                             /\ \A h \in 1..Len(j.m) : j.m[h].key = key => h <= i
         IN  DOk([key \in {j.m[i].key : i \in 1..Len(j.m)} |-> j.m[last(key)].val.b])
    ELSE DFail

DecodePermissionsData(j) ==
    LET s == StructFields(j, <<S_accessibility, S_automation>>)
        a == DecodeBool(s.f[1].val)
        b == DecodeAutomation(s.f[2].val)
    IN  IF AllPresent(s) /\ a.ok /\ b.ok
        THEN DOk([accessibility |-> a.v, automation |-> b.v])
        ELSE DFail

DecodeApiKeyData(j) ==
    LET s == StructFields(j, <<S_provider, S_configured, S_verified>>)
        a == DecodeString(s.f[1].val)
        b == DecodeBool(s.f[2].val)
        c == DecodeBool(s.f[3].val)
    IN  IF AllPresent(s) /\ a.ok /\ b.ok /\ c.ok
        THEN DOk([provider |-> a.v, configured |-> b.v, verified |-> c.v])
        ELSE DFail

DecodeTelegramData(j) ==
    LET s == StructFields(j, <<S_configured, S_skipped>>)
        a == DecodeBool(s.f[1].val)
        b == DecodeBool(s.f[2].val)
    IN  IF AllPresent(s) /\ a.ok /\ b.ok
        THEN DOk([configured |-> a.v, skipped |-> b.v])
        ELSE DFail

\* mutant: dev_tools without #[serde(default)]
DecodeOnboardingData_Required(j) ==
    LET s == StructFields(j, <<S_permissions, S_api_key, S_telegram, S_dev_tools>>)
        a == DecodePermissionsData(s.f[1].val)
        b == DecodeApiKeyData(s.f[2].val)
        c == DecodeTelegramData(s.f[3].val)
        d == DecodeDevToolsData(s.f[4].val)
    IN  IF AllPresent(s) /\ a.ok /\ b.ok /\ c.ok /\ d.ok
        THEN DOk([permissions |-> a.v, api_key |-> b.v, telegram |-> c.v,
                  dev_tools |-> d.v])
        ELSE DFail

\* dev_tools is #[serde(default)]: when it is not given it is
\* DevToolsData::default(); the other three fields must be given
DecodeOnboardingData(j) ==
    LET s == StructFields(j, <<S_permissions, S_api_key, S_telegram, S_dev_tools>>)
        a == DecodePermissionsData(s.f[1].val)
        b == DecodeApiKeyData(s.f[2].val)
        c == DecodeTelegramData(s.f[3].val)
        d == IF s.f[4].present THEN DecodeDevToolsData(s.f[4].val)
             ELSE DOk(DevToolsDefault)
    IN  IF /\ s.ok
           /\ \A n \in 1..3 : s.f[n].present
           /\ a.ok /\ b.ok /\ c.ok /\ d.ok
        THEN DOk([permissions |-> a.v, api_key |-> b.v, telegram |-> c.v,
                  dev_tools |-> d.v])
        ELSE DFail

DecodeOnboardingState(j) ==
    LET s == StructFields(j, <<S_version, S_completed, S_current_step, S_data>>)
        a == DecodeU32(s.f[1].val)
        b == DecodeBool(s.f[2].val)
        c == DecodeString(s.f[3].val)
        d == DecodeOnboardingData(s.f[4].val)
    IN  IF AllPresent(s) /\ a.ok /\ b.ok /\ c.ok /\ d.ok
        THEN DOk([version |-> a.v, completed |-> b.v, current_step |-> c.v,
                  data |-> d.v])
        ELSE DFail

\* serde_json::from_str: [ok, v]
FromStr(toks) ==
    LET r == ParseDocument(toks)
    IN  IF r.ok THEN DecodeOnboardingState(r.v) ELSE DFail

(***************************************************************************)
(* The documents the caller passes to write_onboarding_state               *)
(***************************************************************************)
\* the document of the completed wizard: no automation entry left
CompletedState ==
    [version |-> 1,
     completed |-> TRUE,
     current_step |-> S_done,
     data |->
        [permissions |-> [accessibility |-> TRUE, automation |-> <<>>],
         api_key |-> [provider |-> S_openai, configured |-> TRUE, verified |-> TRUE],
         telegram |-> [configured |-> FALSE, skipped |-> TRUE],
         dev_tools |-> DevToolsDefault]]

\* strings that need escaping (the quote, the backslash, characters below
\* U+0020 with and without a letter of their own) or do not (U+007F, U+00E9,
\* U+1F600), the largest version the model's integers hold
EscapedState ==
    [version |-> 2147483647,
     completed |-> FALSE,
     current_step |-> <<"a", "\"", "\\", "\n", "/", "\t", "\r", "\f", Chr(8), Chr(0),
                        Chr(31), Chr(127), Chr(233), Chr(128512)>>,
     data |->
        [permissions |->
            [accessibility |-> FALSE,
             automation |-> (S_Mail :> TRUE) @@ (<<"\"", "\\", "\r", Chr(27)>> :> FALSE)],
         api_key |-> [provider |-> <<>>, configured |-> TRUE, verified |-> FALSE],
         telegram |-> [configured |-> TRUE, skipped |-> FALSE],
         dev_tools |->
            [homebrew |-> DevToolInfo(TRUE, <<"4", ".", "1">>),
             python |-> DevToolInfo(TRUE, <<"3", "\\", "n">>),
             node |-> DevToolInfo(FALSE, <<>>),
             npx |-> NpxInfo(TRUE),
             skipped |-> TRUE]]]

\* a document that differs from the others in every field, for any n >= 0
NumberedState(n) ==
    [version |-> n,
     completed |-> n % 2 = 1,
     current_step |-> Itoa(n),
     data |->
        [permissions |->
            [accessibility |-> n % 2 = 1, automation |-> (Itoa(n) :> (n % 2 = 1))],
         api_key |-> [provider |-> Itoa(n), configured |-> FALSE, verified |-> TRUE],
         telegram |-> [configured |-> TRUE, skipped |-> TRUE],
         dev_tools |->
            [homebrew |-> DevToolInfo(FALSE, <<>>),
             python |-> DevToolInfo(FALSE, Itoa(n)),
             node |-> DevToolInfo(TRUE, Itoa(n + 1)),
             npx |-> NpxInfo(n % 2 = 1),
             skipped |-> FALSE]]]

Doc(i) ==
    IF i = 0 THEN OnboardingDefault
    ELSE IF i = 1 THEN CompletedState
    ELSE IF i = 2 THEN EscapedState
    ELSE NumberedState(i - 3)

Docs == {Doc(i) : i \in 0..MaxDoc}

\* the calls of write_onboarding_state: a document and a text that
\* to_string_pretty can give for it, one for every iteration order of its map
PrettyTexts ==
    UNION {{[state |-> d, text |-> SerOnboardingState(d, o)] :
               o \in KeyOrders(d.data.permissions.automation)} : d \in Docs}

\* one iteration order of a map
AnOrder(m) == CHOOSE o \in KeyOrders(m) : TRUE

\* the calls made on a device that refuses something: each document, in
\* one iteration order of its map
FaultTexts ==
    {[state |-> d,
      text |-> SerOnboardingState(d, AnOrder(d.data.permissions.automation))] :
        d \in Docs}

(***************************************************************************)
(* Contents of onboarding.json that this program did not write             *)
(***************************************************************************)
\* an onboarding document written member by member
StateText(versionToks, completedToks, stepToks, dataToks) ==
    SerObject(<<Member(S_version, versionToks),
                Member(S_completed, completedToks),
                Member(S_current_step, stepToks),
                Member(S_data, dataToks)>>)

\* data without the dev_tools member
DataTextNoDevTools(d, order) ==
    SerObject(<<Member(S_permissions, SerPermissionsData(d.permissions, order)),
                Member(S_api_key, SerApiKeyData(d.api_key)),
                Member(S_telegram, SerTelegramData(d.telegram))>>)

\* state written without data.dev_tools
TextNoDevTools(state) ==
    StateText(SerU32(state.version), SerBool(state.completed),
              SerStr(state.current_step),
              DataTextNoDevTools(state.data, AnOrder(state.data.permissions.automation)))

FullData(state) ==
    SerOnboardingData(state.data, AnOrder(state.data.permissions.automation))

\* texts every required field of which is present and well typed, without dev_tools
NoDevToolsDocs == {CompletedState, OnboardingDefault, EscapedState}

\* "{not json"
TextNotJson == <<Tok("{"), Tok("not"), Tok("json")>>

\* texts that are not an OnboardingState
CorruptTexts ==
    {TextNotJson,
     <<>>,
     <<Tok("null")>>,
     \* cut short
     SubSeq(TextNoDevTools(CompletedState), 1, Len(TextNoDevTools(CompletedState)) - 1),
     \* one brace too many
     TextNoDevTools(CompletedState) \o <<Tok("}")>>,
     \* a comma before the closing brace
     <<Tok("{"), StrTok(S_version), Tok(":"), NumTok(<<"1">>), Tok(","), Tok("}")>>,
     \* no data
     SerObject(<<Member(S_version, SerU32(1)), Member(S_completed, SerBool(TRUE)),
                 Member(S_current_step, SerStr(S_done))>>),
     \* no telegram in data
     StateText(SerU32(1), SerBool(TRUE), SerStr(S_done),
               SerObject(<<Member(S_permissions,
                                  SerPermissionsData(CompletedState.data.permissions, <<>>)),
                           Member(S_api_key, SerApiKeyData(CompletedState.data.api_key))>>)),
     \* completed is a string
     StateText(SerU32(1), SerStr(<<"y", "e", "s">>), SerStr(S_done),
               FullData(CompletedState)),
     \* version is u32::MAX + 1
     StateText(<<NumTok(<<"4", "2", "9", "4", "9", "6", "7", "2", "9", "6">>)>>,
               SerBool(TRUE), SerStr(S_done), FullData(CompletedState)),
     \* version is negative, a fraction, written with a leading zero
     StateText(<<NumTok(<<"-", "1">>)>>, SerBool(TRUE), SerStr(S_done),
               FullData(CompletedState)),
     StateText(<<NumTok(<<"1", ".", "0">>)>>, SerBool(TRUE), SerStr(S_done),
               FullData(CompletedState)),
     StateText(<<NumTok(<<"0", "1">>)>>, SerBool(TRUE), SerStr(S_done),
               FullData(CompletedState)),
     \* current_step is null
     StateText(SerU32(1), SerBool(TRUE), <<Tok("null")>>, FullData(CompletedState)),
     \* current_step holds an escape that does not exist
     StateText(SerU32(1), SerBool(TRUE), <<StrTok(<<"\\", "q">>)>>,
               FullData(CompletedState)),
     \* current_step holds a carriage return, a form feed that is not escaped
     StateText(SerU32(1), SerBool(TRUE), <<StrTok(<<"a", "\r">>)>>,
               FullData(CompletedState)),
     StateText(SerU32(1), SerBool(TRUE), <<StrTok(<<"\f">>)>>,
               FullData(CompletedState)),
     \* current_step holds \uDC00, \uD83D without its second half, \u12
     StateText(SerU32(1), SerBool(TRUE),
               <<StrTok(<<"\\", "u", "D", "C", "0", "0">>)>>, FullData(CompletedState)),
     StateText(SerU32(1), SerBool(TRUE),
               <<StrTok(<<"\\", "u", "d", "8", "3", "d", "x">>)>>,
               FullData(CompletedState)),
     StateText(SerU32(1), SerBool(TRUE), <<StrTok(<<"\\", "u", "1", "2">>)>>,
               FullData(CompletedState)),
     \* version is written with an exponent, as minus zero
     StateText(<<NumTok(<<"1", "e", "0">>)>>, SerBool(TRUE), SerStr(S_done),
               FullData(CompletedState)),
     StateText(<<NumTok(<<"-", "0">>)>>, SerBool(TRUE), SerStr(S_done),
               FullData(CompletedState)),
     \* a member the structure does not have: a number whose exponent has no
     \* digits, a string with a raw line feed, a key that is \uD800
     SerObject(<<Member(<<"x">>, <<NumTok(<<"1", "e", "+">>)>>),
                 Member(S_version, SerU32(1)), Member(S_completed, SerBool(TRUE)),
                 Member(S_current_step, SerStr(S_done)),
                 Member(S_data, FullData(CompletedState))>>),
     SerObject(<<Member(<<"x">>, <<StrTok(<<"\n">>)>>),
                 Member(S_version, SerU32(1)), Member(S_completed, SerBool(TRUE)),
                 Member(S_current_step, SerStr(S_done)),
                 Member(S_data, FullData(CompletedState))>>),
     <<Tok("{"), StrTok(<<"\\", "u", "D", "8", "0", "0">>), Tok(":"), Tok("null"),
       Tok(",")>> \o Tail(TextNoDevTools(CompletedState)),
     \* version is given twice
     SerObject(<<Member(S_version, SerU32(1)), Member(S_version, SerU32(1)),
                 Member(S_completed, SerBool(TRUE)),
                 Member(S_current_step, SerStr(S_done)),
                 Member(S_data, FullData(CompletedState))>>),
     \* an automation entry is not a boolean
     StateText(SerU32(1), SerBool(TRUE), SerStr(S_done),
               SerObject(<<Member(S_permissions,
                                  SerObject(<<Member(S_accessibility, SerBool(TRUE)),
                                              Member(S_automation,
                                                     SerObject(<<Member(S_Mail, SerU32(1))>>))>>)),
                           Member(S_api_key, SerApiKeyData(CompletedState.data.api_key)),
                           Member(S_telegram, SerTelegramData(CompletedState.data.telegram))>>)),
     \* dev_tools is present and null
     StateText(SerU32(1), SerBool(TRUE), SerStr(S_done),
               SerObject(<<Member(S_permissions,
                                  SerPermissionsData(CompletedState.data.permissions, <<>>)),
                           Member(S_api_key, SerApiKeyData(CompletedState.data.api_key)),
                           Member(S_telegram, SerTelegramData(CompletedState.data.telegram)),
                           Member(S_dev_tools, <<Tok("null")>>)>>))}

\* texts that are an OnboardingState, written otherwise than this program writes
ForeignTexts ==
    {\* a member the structure does not have, of any JSON shape
     SerObject(<<Member(<<"x">>, <<Tok("["), NumTok(<<"-", "1", ".", "5">>), Tok(","),
                                    Tok("null"), Tok(","), Tok("{"), Tok("}"), Tok("]")>>),
                 Member(S_data, FullData(CompletedState)),
                 Member(S_current_step, SerStr(S_done)),
                 Member(S_completed, SerBool(TRUE)),
                 Member(S_version, SerU32(7))>>),
     \* the fields by position
     <<Tok("[")>> \o SerU32(1) \o <<Tok(",")>> \o SerBool(FALSE) \o <<Tok(",")>>
        \o SerStr(S_welcome) \o <<Tok(",")>> \o FullData(OnboardingDefault)
        \o <<Tok("]")>>,
     \* current_step written with the escapes this program does not write:
     \* \/ \b \u0041 \u00e9 and the two halves \uD83D \uDe00
     StateText(SerU32(1), SerBool(TRUE),
               <<StrTok(<<"\\", "/", "\\", "b", "\\", "u", "0", "0", "4", "1",
                          "\\", "u", "0", "0", "e", "9",
                          "\\", "u", "D", "8", "3", "D", "\\", "u", "D", "e", "0", "0">>)>>,
               FullData(CompletedState)),
     \* members the structure does not have: numbers with an exponent, a
     \* string and a key that hold \uD800 alone
     SerObject(<<Member(<<"x">>, <<Tok("["), NumTok(<<"1", "e", "5">>), Tok(","),
                                    NumTok(<<"-", "1", ".", "5", "E", "-", "2">>), Tok(","),
                                    NumTok(<<"1", "e", "9", "9", "9">>), Tok(","),
                                    StrTok(<<"\\", "u", "D", "8", "0", "0">>), Tok(","),
                                    Tok("{"), StrTok(<<"\\", "u", "D", "8", "0", "0">>),
                                    Tok(":"), Tok("null"), Tok("}"), Tok("]")>>),
                 Member(S_version, SerU32(1)), Member(S_completed, SerBool(TRUE)),
                 Member(S_current_step, SerStr(S_done)),
                 Member(S_data, FullData(CompletedState))>>)}

(***************************************************************************)
(* The file system under <home>/.macbot                                    *)
(***************************************************************************)
NoFile == [kind |-> "absent", utf8 |-> TRUE, text |-> <<>>, r |-> TRUE, w |-> TRUE]

Directory == [kind |-> "dir", utf8 |-> TRUE, text |-> <<>>, r |-> TRUE, w |-> TRUE]

\* a regular file of text that the caller may read (r) and write (w)
FileWith(text, r, w) ==
    [kind |-> "file", utf8 |-> TRUE, text |-> text, r |-> r, w |-> w]

File(text) == FileWith(text, TRUE, TRUE)

\* a regular file whose bytes are not UTF-8
BinaryFile == [kind |-> "file", utf8 |-> FALSE, text |-> <<>>, r |-> TRUE, w |-> TRUE]

\* The access of the caller to a directory: "x" to reach its entries, "w"
\* (with "x") to create and remove entries
AllAccess == {"w", "x"}

\* perms.home: the access to the home directory; perms.dir: the access to
\* <home>/.macbot while it is a directory; perms.mask: the bits that the
\* umask takes from the caller's access to what it creates
NoLimits == [home |-> AllAccess, dir |-> AllAccess, mask |-> {}]

\* get_macbot_dir and the three get_*_path: Ok exactly when the home
\* directory is known; the paths themselves are the three file variables
HomeError == "Could not find home directory"

GetMacbotDirOk == home

\* the caller reaches the entries of <home>/.macbot
Searchable == "x" \in perms.home /\ macbotDir = "dir" /\ "x" \in perms.dir

\* PathBuf::exists() of a path under <home>/.macbot: false also when the
\* path cannot be reached
Exists(entry) == Searchable /\ entry.kind # "absent"

\* std::fs::read_to_string of a path: [ok, s]
ReadToString(entry) ==
    IF Searchable /\ entry.kind = "file" /\ entry.r /\ entry.utf8
    THEN [ok |-> TRUE, s |-> entry.text]
    ELSE [ok |-> FALSE, s |-> <<>>]

\* a string with a character that UTF-8 writes as more than one byte: one
\* that is not among U+0000 .. U+007F
HasMultiByte(s) ==
    \E i \in DOMAIN s :
       s[i] \notin {Ascii[j] : j \in DOMAIN Ascii} \cup ControlChars \cup {Chr(127)}

\* the characters of a token that to_string_pretty writes
TokChars(tk) ==
    IF tk.t = "str" THEN <<"\"">> \o tk.v \o <<"\"">>
    ELSE IF tk.t = "num" THEN tk.v
    ELSE IF tk.t = "true" THEN <<"t", "r", "u", "e">>
    ELSE IF tk.t = "false" THEN <<"f", "a", "l", "s", "e">>
    ELSE IF tk.t = "null" THEN <<"n", "u", "l", "l">>
    ELSE <<tk.t>>

\* the device refuses nothing
NoFault == [kind |-> "none", n |-> 0, k |-> 0, signal |-> FALSE]

\* What the device can refuse to std::fs::create_dir_all and std::fs::write,
\* for a content of Len(lens) units (tokens of onboarding.json, characters
\* of .env) of which unit i is lens[i] bytes of one-byte characters:
\*   "inodes": only n inodes are free, and a directory or a file that has to
\*             be created takes one;
\*   "room":   there is room for the first n units of the content and for
\*             the first k bytes of the next only (k = 0: the room ends
\*             between two units);
\*   "split":  the room ends within a character of more than one byte
\*             (multibyte: the content has one), the bytes left are not UTF-8.
\* signal: the room is ended by the file size limit of the caller and the
\* kernel's SIGXFSZ ends the application inside std::fs::write; without it
\* the write fails with an error (a full disk, a quota, or the limit with
\* the signal ignored).  An empty content is written without a write call.
Faults(lens, multibyte) ==
    {NoFault}
        \cup {[kind |-> "inodes", n |-> i, k |-> 0, signal |-> FALSE] : i \in 0..1}
        \cup UNION {{[kind |-> "room", n |-> i, k |-> j, signal |-> s] :
                        j \in 0..(lens[i + 1] - 1), s \in BOOLEAN} :
                     i \in {i \in 0..MaxPartial : i < Len(lens)}}
        \cup {[kind |-> "split", n |-> 0, k |-> 0, signal |-> s] :
                 s \in IF multibyte THEN BOOLEAN ELSE {}}

\* what is left of a JSON text for which there is room for n tokens and k
\* bytes of the next: the n tokens and, when k > 0, the fragment of a token
CutText(toks, fault) ==
    SubSeq(toks, 1, fault.n)
        \o IF fault.k = 0 THEN <<>>
           ELSE <<[t |-> "fragment",
                   v |-> SubSeq(TokChars(toks[fault.n + 1]), 1, fault.k)]>>

\* the data of the content does not all reach the file
CutShort(content, fault) ==
    \/ fault.kind = "room" /\ fault.n < Len(content)
    \/ fault.kind = "split"

\* std::fs::create_dir_all(<home>/.macbot): a directory that is there is
\* left alone, one that is not is created when the caller may create it and
\* the device has an inode for it; a file in its place and a home directory
\* that cannot be searched are errors
CreateDirAllOk(fault) ==
    /\ "x" \in perms.home
    /\ \/ macbotDir = "dir"
       \/ /\ macbotDir = "absent"
          /\ "w" \in perms.home
          /\ fault.kind = "inodes" => fault.n >= 1

\* the access to <home>/.macbot after a successful create_dir_all
CreatedDirAccess ==
    IF macbotDir = "dir" THEN perms.dir ELSE AllAccess \ perms.mask

\* std::fs::write(path, content) opens the file for writing, creating it
\* when it is not there: it fails on a directory, on a file the caller may
\* not write, when the caller may not create the file and when the device
\* has no inode for it, create_dir_all having taken one for a directory
\* that was not there.  access: what the caller may do in <home>/.macbot
FsWriteOk(entry, access, fault) ==
    /\ "x" \in perms.home
    /\ "x" \in access
    /\ \/ entry.kind = "file" /\ entry.w
       \/ /\ entry.kind = "absent"
          /\ "w" \in access
          /\ fault.kind = "inodes"
                => fault.n >= (IF macbotDir = "absent" THEN 2 ELSE 1)

\* the file after std::fs::write has written content: truncated or created,
\* then exactly the content.  A file that was there keeps its mode.
FsWrite(entry, content) ==
    IF entry.kind = "file" THEN FileWith(content, entry.r, entry.w)
    ELSE FileWith(content, "r" \notin perms.mask, "w" \notin perms.mask)

\* the file after std::fs::write has opened it and written what the device
\* takes of the content; cut: what is left of the content when the room ends
FsWriteData(entry, content, cut, fault) ==
    IF fault.kind = "split" THEN [FsWrite(entry, <<>>) EXCEPT !.utf8 = FALSE]
    ELSE IF fault.kind = "room" /\ fault.n < Len(content)
    THEN FsWrite(entry, cut)
    ELSE FsWrite(entry, content)

\* mutant: the record is not removed
RemoveFile_Skipped(entry) == entry

\* std::fs::remove_file: a regular file is removed when the caller may
\* remove entries of the directory; on a directory and on a path that does
\* not exist it fails and changes nothing
RemoveFile(entry) ==
    IF Searchable /\ "w" \in perms.dir /\ entry.kind = "file" THEN NoFile ELSE entry

NoResult == [op |-> "none", arg |-> <<>>, ok |-> TRUE, val |-> <<>>, err |-> ""]

Ok(op, arg, val) == [op |-> op, arg |-> arg, ok |-> TRUE, val |-> val, err |-> ""]

Err(op, arg, err) == [op |-> op, arg |-> arg, ok |-> FALSE, val |-> <<>>, err |-> err]

Brief(r) == [op |-> r.op, ok |-> r.ok]

(***************************************************************************)
(* read_onboarding_state, lib.rs lines 144-153                             *)
(***************************************************************************)
ReadOnboardingStateResult ==
    IF ~GetMacbotDirOk THEN Err("read_onboarding_state", <<>>, HomeError)
    ELSE IF Exists(onboardingFile)
    THEN LET content == ReadToString(onboardingFile)
             parsed == FromStr(content.s)
         IN  IF ~content.ok THEN Err("read_onboarding_state", <<>>, "io")
             ELSE IF ~parsed.ok THEN Err("read_onboarding_state", <<>>, "serde_json")
             ELSE Ok("read_onboarding_state", <<>>, parsed.v)
    ELSE Ok("read_onboarding_state", <<>>, OnboardingDefault)

ReadOnboardingState ==
    /\ result' = ReadOnboardingStateResult
    /\ prev' = Brief(result)
    /\ UNCHANGED <<home, macbotDir, onboardingFile, envFile, pidFile, perms, kills, pc,
                   pid>>

(***************************************************************************)
(* write_onboarding_state, lib.rs lines 156-165                            *)
(***************************************************************************)
\* mutant: the file is opened for appending
WriteOnboardingStateEffect_Append(content, fault) ==
    IF ~GetMacbotDirOk
    THEN [ok |-> FALSE, err |-> HomeError, dir |-> macbotDir, access |-> perms.dir,
          file |-> onboardingFile]
    ELSE IF ~CreateDirAllOk(fault)
    THEN [ok |-> FALSE, err |-> "io", dir |-> macbotDir, access |-> perms.dir,
          file |-> onboardingFile]
    ELSE IF ~FsWriteOk(onboardingFile, CreatedDirAccess, fault)
    THEN [ok |-> FALSE, err |-> "io", dir |-> "dir", access |-> CreatedDirAccess,
          file |-> onboardingFile]
    ELSE [ok |-> ~CutShort(content, fault),
          err |-> IF ~CutShort(content, fault) THEN ""
                  ELSE IF fault.signal THEN "terminated" ELSE "io",
          dir |-> "dir", access |-> CreatedDirAccess,
          file |-> [FsWrite(onboardingFile, <<>>) EXCEPT
                       !.utf8 = onboardingFile.utf8 /\ fault.kind # "split",
                       !.text = IF fault.kind = "split" THEN <<>>
                                ELSE onboardingFile.text
                                  \o FsWriteData(onboardingFile, content,
                                                 CutText(content, fault),
                                                 fault).text]]

\* content: what serde_json::to_string_pretty(&state) returned, which cannot
\* fail for this structure; fault: what the device refuses.  What the write
\* leaves: [ok, err, dir, access, file]; nothing when a directory or a file
\* cannot be created, the directory when only the file cannot, a file that
\* is cut short when the data does not all fit, and then an error or, with
\* the signal, no return ("terminated")
WriteOnboardingStateEffect(content, fault) ==
    IF ~GetMacbotDirOk
    THEN [ok |-> FALSE, err |-> HomeError, dir |-> macbotDir, access |-> perms.dir,
          file |-> onboardingFile]
    ELSE IF ~CreateDirAllOk(fault)
    THEN [ok |-> FALSE, err |-> "io", dir |-> macbotDir, access |-> perms.dir,
          file |-> onboardingFile]
    ELSE IF ~FsWriteOk(onboardingFile, CreatedDirAccess, fault)
    THEN [ok |-> FALSE, err |-> "io", dir |-> "dir", access |-> CreatedDirAccess,
          file |-> onboardingFile]
    ELSE [ok |-> ~CutShort(content, fault),
          err |-> IF ~CutShort(content, fault) THEN ""
                  ELSE IF fault.signal THEN "terminated" ELSE "io",
          dir |-> "dir", access |-> CreatedDirAccess,
          file |-> FsWriteData(onboardingFile, content, CutText(content, fault),
                               fault)]

\* The command write_onboarding_state.  With the error "terminated" the
\* command has not returned: the application was ended inside
\* std::fs::write, and the steps that follow are those of its next run.
WriteOnboardingState(state, content, fault) ==
    LET e == WriteOnboardingStateEffect(content, fault)
    IN  /\ macbotDir' = e.dir
        /\ perms' = [perms EXCEPT !.dir = e.access]
        /\ onboardingFile' = e.file
        /\ result' = IF e.ok THEN Ok("write_onboarding_state", state, <<>>)
                     ELSE Err("write_onboarding_state", state, e.err)
        /\ prev' = Brief(result)
        /\ UNCHANGED <<home, envFile, pidFile, kills, pc, pid>>

(***************************************************************************)
(* read_config, lib.rs lines 168-176                                       *)
(***************************************************************************)
\* mutant: the file is read without asking whether it exists
ReadConfigResult_NoExistsCheck ==
    IF ~GetMacbotDirOk THEN Err("read_config", <<>>, HomeError)
    ELSE LET content == ReadToString(envFile)
         IN  IF Exists(envFile) /\ content.ok THEN Ok("read_config", <<>>, content.s)
             ELSE Err("read_config", <<>>, "io")

ReadConfigResult ==
    IF ~GetMacbotDirOk THEN Err("read_config", <<>>, HomeError)
    ELSE IF Exists(envFile)
    THEN LET content == ReadToString(envFile)
         IN  IF content.ok THEN Ok("read_config", <<>>, content.s)
             ELSE Err("read_config", <<>>, "io")
    ELSE Ok("read_config", <<>>, <<>>)

ReadConfig ==
    /\ result' = ReadConfigResult
    /\ prev' = Brief(result)
    /\ UNCHANGED <<home, macbotDir, onboardingFile, envFile, pidFile, perms, kills, pc,
                   pid>>

(***************************************************************************)
(* write_config, lib.rs lines 179-187                                      *)
(***************************************************************************)
\* mutant: the file is opened for appending
WriteConfigEffect_Append(content, fault) ==
    IF ~GetMacbotDirOk
    THEN [ok |-> FALSE, err |-> HomeError, dir |-> macbotDir, access |-> perms.dir,
          file |-> envFile]
    ELSE IF ~CreateDirAllOk(fault)
    THEN [ok |-> FALSE, err |-> "io", dir |-> macbotDir, access |-> perms.dir,
          file |-> envFile]
    ELSE IF ~FsWriteOk(envFile, CreatedDirAccess, fault)
    THEN [ok |-> FALSE, err |-> "io", dir |-> "dir", access |-> CreatedDirAccess,
          file |-> envFile]
    ELSE [ok |-> ~CutShort(content, fault),
          err |-> IF ~CutShort(content, fault) THEN ""
                  ELSE IF fault.signal THEN "terminated" ELSE "io",
          dir |-> "dir", access |-> CreatedDirAccess,
          file |-> [FsWrite(envFile, <<>>) EXCEPT
                       !.utf8 = envFile.utf8 /\ fault.kind # "split",
                       !.text = IF fault.kind = "split" THEN <<>>
                                ELSE envFile.text
                                  \o FsWriteData(envFile, content,
                                                 SubSeq(content, 1, fault.n),
                                                 fault).text]]

\* fault: what the device refuses.  What the write leaves: [ok, err, dir,
\* access, file], as for write_onboarding_state
WriteConfigEffect(content, fault) ==
    IF ~GetMacbotDirOk
    THEN [ok |-> FALSE, err |-> HomeError, dir |-> macbotDir, access |-> perms.dir,
          file |-> envFile]
    ELSE IF ~CreateDirAllOk(fault)
    THEN [ok |-> FALSE, err |-> "io", dir |-> macbotDir, access |-> perms.dir,
          file |-> envFile]
    ELSE IF ~FsWriteOk(envFile, CreatedDirAccess, fault)
    THEN [ok |-> FALSE, err |-> "io", dir |-> "dir", access |-> CreatedDirAccess,
          file |-> envFile]
    ELSE [ok |-> ~CutShort(content, fault),
          err |-> IF ~CutShort(content, fault) THEN ""
                  ELSE IF fault.signal THEN "terminated" ELSE "io",
          dir |-> "dir", access |-> CreatedDirAccess,
          file |-> FsWriteData(envFile, content, SubSeq(content, 1, fault.n),
                               fault)]

\* The command write_config; with the error "terminated" it has not returned.
WriteConfig(content, fault) ==
    LET e == WriteConfigEffect(content, fault)
    IN  /\ macbotDir' = e.dir
        /\ perms' = [perms EXCEPT !.dir = e.access]
        /\ envFile' = e.file
        /\ result' = IF e.ok THEN Ok("write_config", content, <<>>)
                     ELSE Err("write_config", content, e.err)
        /\ prev' = Brief(result)
        /\ UNCHANGED <<home, onboardingFile, pidFile, kills, pc, pid>>

(***************************************************************************)
(* stop_service_if_running, lib.rs lines 125-141                           *)
(***************************************************************************)
\* char::is_whitespace: the characters with the property White_Space
WhiteSpace ==
    {Chr(n) : n \in (9..13) \cup {32, 133, 160, 5760} \cup (8192..8202)
                       \cup {8232, 8233, 8239, 8287, 12288}}

\* str::trim
RECURSIVE TrimStart(_), TrimEnd(_)
TrimStart(s) ==
    IF s # <<>> /\ Head(s) \in WhiteSpace THEN TrimStart(Tail(s)) ELSE s

TrimEnd(s) ==
    IF s # <<>> /\ s[Len(s)] \in WhiteSpace THEN TrimEnd(SubSeq(s, 1, Len(s) - 1)) ELSE s

Trim(s) == TrimEnd(TrimStart(s))

\* i32::MAX
I32Max == 2147483647

\* the digit loop of i32::from_str: checked_mul and checked_add for a
\* positive number, checked_mul and checked_sub for a negative one
RECURSIVE Accumulate(_, _, _)
Accumulate(d, acc, positive) ==
    IF d = <<>> THEN [ok |-> TRUE, v |-> acc]
    ELSE IF Head(d) \notin DigitChars THEN [ok |-> FALSE, v |-> 0]
    ELSE LET x == DigitVal(Head(d))
         IN  IF positive
             THEN IF acc > (I32Max - x) \div 10 THEN [ok |-> FALSE, v |-> 0]
                  ELSE Accumulate(Tail(d), acc * 10 + x, TRUE)
             ELSE IF acc < -(I32Max \div 10) \/ x - 1 > acc * 10 + I32Max
                  THEN [ok |-> FALSE, v |-> 0]
                  ELSE Accumulate(Tail(d), acc * 10 - x, FALSE)

\* mutant: the characters that are no digits are skipped, as atoi-like
\* parsing does
ParseI32_Lenient(s) ==
    Accumulate(SelectSeq(s, LAMBDA c : c \in DigitChars), 0, TRUE)

\* str::parse::<i32>: [ok, v].  An empty string and a lone sign are errors.
ParseI32(s) ==
    IF s = <<>> THEN [ok |-> FALSE, v |-> 0]
    ELSE IF Head(s) \in {"+", "-"}
    THEN IF Len(s) = 1 THEN [ok |-> FALSE, v |-> 0]
         ELSE Accumulate(Tail(s), 0, Head(s) = "+")
    ELSE Accumulate(s, 0, TRUE)

\* the digits of m + 1, for m >= 0
ItoaSucc(m) ==
    IF m % 10 # 9
    THEN (IF m < 10 THEN <<>> ELSE Itoa(m \div 10)) \o <<Digits[(m % 10) + 2]>>
    ELSE Itoa((m \div 10) + 1) \o <<"0">>

\* i32::to_string
I32ToString(n) == IF n >= 0 THEN Itoa(n) ELSE <<"-">> \o ItoaSucc(-(n + 1))

\* How Command::new("kill").arg(..).output() can end.  When it returns, what
\* it returns is dropped: the signal was sent, there is no such process, the
\* signal may not be sent, or no kill command was run.  It does not return
\* when the signal ends the process that waits for it: kill 0 signals the
\* process group of its caller, a positive number can be the process id of
\* the application, and what a negative number means is up to the kill
\* command found on PATH (a signal number, a process group, or options that
\* make it signal every process the caller may signal).
KillOutcomes ==
    {"killed", "no_such_process", "permission_denied", "not_run", "caller_terminated"}

\* lines 127-130: whether the four conditions hold and the pid they give,
\* [go, pid]
StopServiceBegin ==
    LET pid_str == ReadToString(pidFile)
        p == ParseI32(Trim(pid_str.s))
    IN  IF GetMacbotDirOk /\ Exists(pidFile) /\ pid_str.ok /\ p.ok
        THEN [go |-> TRUE, pid |-> p.v]
        ELSE [go |-> FALSE, pid |-> 0]

\* The cleanup is called (from the RunEvent::Exit handler of run, lines
\* 228-233): lines 126-130.  It returns at once unless the record gives a pid.
StopServiceRead ==
    LET b == StopServiceBegin
    IN  /\ pc = "idle"
        /\ Len(kills) < MaxKills
        /\ pid' = b.pid
        /\ IF b.go
           THEN pc' = "kill" /\ UNCHANGED <<result, prev>>
           ELSE /\ pc' = "idle"
                /\ result' = Ok("stop_service_if_running", <<>>, <<>>)
                /\ prev' = Brief(result)
        /\ UNCHANGED <<home, macbotDir, onboardingFile, envFile, pidFile, perms, kills>>

\* lines 132-134: the kill command is run with the pid as its argument and
\* waited for.  A signal that ends the application ends the cleanup here:
\* it does not return and line 136 is not reached.
StopServiceKill(outcome) ==
    /\ pc = "kill"
    /\ kills' = Append(kills, [arg |-> I32ToString(pid), outcome |-> outcome])
    /\ IF outcome = "caller_terminated"
       THEN /\ pc' = "idle"
            /\ pid' = 0
            /\ result' = Err("stop_service_if_running", <<>>, "terminated")
            /\ prev' = Brief(result)
       ELSE pc' = "remove" /\ UNCHANGED <<pid, result, prev>>
    /\ UNCHANGED <<home, macbotDir, onboardingFile, envFile, pidFile, perms>>

\* line 136: whatever is at the path of the record now is removed when it
\* can be; a failure is dropped.  The cleanup returns.
StopServiceRemove ==
    /\ pc = "remove"
    /\ pidFile' = RemoveFile(pidFile)
    /\ pc' = "idle"
    /\ pid' = 0
    /\ result' = Ok("stop_service_if_running", <<>>, <<>>)
    /\ prev' = Brief(result)
    /\ UNCHANGED <<home, macbotDir, onboardingFile, envFile, perms, kills>>

\* While the cleanup waits for the kill command, the service that owns the
\* record and the commands of the fs and shell plugins (lines 216-217), which
\* run on other threads, go on: the record is written anew or removed.
RecordChanged(entry) ==
    /\ pc \in {"kill", "remove"}
    /\ entry # pidFile
    /\ pidFile' = entry
    /\ UNCHANGED <<home, macbotDir, onboardingFile, envFile, perms, kills, pc, pid,
                   result, prev>>

(***************************************************************************)
(* Initial states: what the operations can find on disk                    *)
(***************************************************************************)
\* a line break and a character of two bytes
CfgChars == {"\n", Chr(233)}

CfgStrings == SeqsUpTo(CfgChars, MaxCfgLen)

PidChars == {"7", "0", "-", "+", "\n", "x"}

\* the ends of the i32 range, a record as a service writes it, white space
\* of every kind, and a negative number of three digits
LongPidTexts ==
    {<<"2", "1", "4", "7", "4", "8", "3", "6", "4", "7">>,
     <<"2", "1", "4", "7", "4", "8", "3", "6", "4", "8">>,
     <<"-", "2", "1", "4", "7", "4", "8", "3", "6", "4", "8">>,
     <<"-", "2", "1", "4", "7", "4", "8", "3", "6", "4", "9">>,
     <<" ", "\t", "4", "2", "1", "7", "\r", "\n">>,
     <<"\f", Chr(11), "4", "3", Chr(160), Chr(8195), Chr(133)>>,
     <<"4", "4", Chr(8203)>>,
     <<"4", "2", " ", "7">>,
     <<"-", "1", "0", "0">>}

PidTexts == SeqsUpTo(PidChars, MaxPidLen) \cup LongPidTexts

\* what the record becomes while the cleanup waits
ChangedRecords == {NoFile, File(<<"4", "2", "\n">>), File(<<"x">>)}

OnboardingTexts ==
    CorruptTexts \cup ForeignTexts \cup {TextNoDevTools(d) : d \in NoDevToolsDocs}
        \cup {SerOnboardingState(OnboardingDefault,
                                AnOrder(OnboardingDefault.data.permissions.automation))}

\* the access a caller can have to a file: all, read only, write only, none
Modes == {<<TRUE, TRUE>>, <<TRUE, FALSE>>, <<FALSE, TRUE>>, <<FALSE, FALSE>>}

\* what can be at a path: nothing, a directory, bytes that are no text, and
\* each text with each access
Entries(texts, modes) ==
    {NoFile, Directory, BinaryFile}
        \cup {FileWith(t, m[1], m[2]) : t \in texts, m \in modes}

\* the caller has all access but for one limit: on its access to the home
\* directory or to <home>/.macbot (all, search only, none), or by a umask
\* that takes one bit from the owner
OneLimit ==
    {[NoLimits EXCEPT !.home = a] : a \in {AllAccess, {"x"}, {}}}
        \cup {[NoLimits EXCEPT !.dir = a] : a \in {AllAccess, {"x"}, {}}}
        \cup {[NoLimits EXCEPT !.mask = m] : m \in {{}, {"r"}, {"w"}, {"x"}}}

\* Without a home directory there are no paths; without the directory
\* <home>/.macbot there are no files in it and no access to it.
InitWith(onboardingEntries, envEntries, pidEntries, permsSet) ==
    /\ home \in BOOLEAN
    /\ macbotDir \in IF home THEN {"absent", "dir", "file"} ELSE {"absent"}
    /\ perms \in IF macbotDir = "dir" THEN permsSet
                 ELSE IF home /\ macbotDir = "absent"
                 THEN {[p EXCEPT !.dir = {}] : p \in permsSet}
                 ELSE {[NoLimits EXCEPT !.dir = {}]}
    /\ onboardingFile \in IF macbotDir = "dir" THEN onboardingEntries ELSE {NoFile}
    /\ envFile \in IF macbotDir = "dir" THEN envEntries ELSE {NoFile}
    /\ pidFile \in IF macbotDir = "dir" THEN pidEntries ELSE {NoFile}
    /\ kills = <<>>
    /\ pc = "idle"
    /\ pid = 0
    /\ result = NoResult
    /\ prev = Brief(NoResult)

AnOnboardingFile == File(TextNoDevTools(CompletedState))

AnEnvFile == File(<<"A", "=", "7", "\n">>)

APidFile == File(<<"7", "\n">>)

(***************************************************************************)
(* The onboarding state store.  The three components share nothing but     *)
(* the home directory and the directory <home>/.macbot, over which every   *)
(* initial state ranges; each is explored on its own, with the files of    *)
(* the other two present so that a change to them would show.              *)
(***************************************************************************)
\* every text with all access; two texts with every access to the file; no
\* file and a file that is read only under every one limit
InitOnboarding ==
    \/ InitWith(Entries(OnboardingTexts, {<<TRUE, TRUE>>}), {AnEnvFile}, {APidFile},
                {NoLimits})
    \/ InitWith(Entries({TextNotJson, TextNoDevTools(CompletedState)}, Modes),
                {AnEnvFile}, {APidFile}, {NoLimits})
    \/ InitWith({NoFile, FileWith(TextNotJson, TRUE, FALSE)}, {AnEnvFile}, {APidFile},
                OneLimit)

\* Every call of write_onboarding_state is made on a device that refuses
\* nothing; on a device that refuses something, the call of each document
\* in one iteration order of its map.
NextOnboarding ==
    \/ ReadOnboardingState
    \/ \E w \in PrettyTexts : WriteOnboardingState(w.state, w.text, NoFault)
    \/ \E w \in FaultTexts :
          \E fault \in Faults([i \in DOMAIN w.text |-> Len(TokChars(w.text[i]))],
                               \E i \in DOMAIN w.text : HasMultiByte(w.text[i].v))
                           \ {NoFault} :
             WriteOnboardingState(w.state, w.text, fault)

SpecOnboarding == InitOnboarding /\ [][NextOnboarding]_vars

(***************************************************************************)
(* The config text store                                                   *)
(***************************************************************************)
InitConfig ==
    InitWith({AnOnboardingFile}, Entries(CfgStrings, Modes), {APidFile}, OneLimit)

NextConfig ==
    \/ ReadConfig
    \/ \E content \in CfgStrings :
          \E fault \in Faults([i \in DOMAIN content |-> 1], HasMultiByte(content)) :
             WriteConfig(content, fault)

SpecConfig == InitConfig /\ [][NextConfig]_vars

(***************************************************************************)
(* The shutdown cleanup, called from the RunEvent::Exit handler of run,    *)
(* lib.rs lines 228-233                                                    *)
(***************************************************************************)
InitShutdown ==
    InitWith({AnOnboardingFile}, {AnEnvFile},
             Entries(PidTexts, {<<TRUE, TRUE>>, <<FALSE, TRUE>>}),
             {p \in OneLimit : p.mask = {}})

NextShutdown ==
    \/ StopServiceRead
    \/ \E outcome \in KillOutcomes : StopServiceKill(outcome)
    \/ StopServiceRemove
    \/ \E entry \in ChangedRecords : RecordChanged(entry)

SpecShutdown == InitShutdown /\ [][NextShutdown]_vars

(***************************************************************************)
(* Properties                                                              *)
(***************************************************************************)
\* a regular file of text is at the path of entry
TextOnDisk(entry) ==
    home /\ macbotDir = "dir" /\ entry.kind = "file" /\ entry.utf8

\* the program gets the text of entry: exists() sees the path and
\* read_to_string returns its content
ReadableText(entry) == Exists(entry) /\ entry.kind = "file" /\ entry.r /\ entry.utf8

\* DevToolsData's default, field by field
IsDevToolsDefault(d) ==
    /\ d.homebrew = [installed |-> FALSE, version |-> <<>>]
    /\ d.python = [installed |-> FALSE, version |-> <<>>]
    /\ d.node = [installed |-> FALSE, version |-> <<>>]
    /\ d.npx = [installed |-> FALSE]
    /\ d.skipped = FALSE

\* the structural default, field by field
IsStructuralDefault(s) ==
    /\ s.version = 1
    /\ s.completed = FALSE
    /\ s.current_step = <<"w", "e", "l", "c", "o", "m", "e">>
    /\ s.data.permissions.accessibility = FALSE
    /\ DOMAIN s.data.permissions.automation =
          {<<"M", "a", "i", "l">>, <<"C", "a", "l", "e", "n", "d", "a", "r">>,
           <<"R", "e", "m", "i", "n", "d", "e", "r", "s">>, <<"N", "o", "t", "e", "s">>,
           <<"S", "a", "f", "a", "r", "i">>}
    /\ \A k \in DOMAIN s.data.permissions.automation :
          s.data.permissions.automation[k] = FALSE
    /\ s.data.api_key = [provider |-> <<"o", "p", "e", "n", "a", "i">>,
                         configured |-> FALSE, verified |-> FALSE]
    /\ s.data.telegram = [configured |-> FALSE, skipped |-> FALSE]
    /\ IsDevToolsDefault(s.data.dev_tools)

\* C1 as claimed: a read_onboarding_state that follows a successful
\* write_onboarding_state(s) succeeds and returns s, whatever the file held
\* before that write and whatever was written earlier.
C1_WriteThenRead ==
    [][(/\ result.op = "write_onboarding_state"
        /\ result.ok
        /\ result'.op = "read_onboarding_state")
       => (result'.ok /\ result'.val = result.arg)]_vars

\* C1, amended: a read_onboarding_state that follows a successful
\* write_onboarding_state(s) returns s when the caller may read the file,
\* whatever the file held before that write and whatever was written
\* earlier; when the caller may not read the file it fails with the I/O
\* error.
C1_WriteThenReadIfReadable ==
    [][(/\ result.op = "write_onboarding_state"
        /\ result.ok
        /\ result'.op = "read_onboarding_state")
       => IF onboardingFile.r
          THEN result'.ok /\ result'.val = result.arg
          ELSE ~result'.ok /\ result'.err = "io"]_vars

\* a read returned the document with the escaped strings right after that
\* document replaced another one
C1_Witness ==
    /\ result.op = "read_onboarding_state"
    /\ prev = [op |-> "write_onboarding_state", ok |-> TRUE]
    /\ result.ok
    /\ result.val = EscapedState

\* C2 as claimed: whenever no onboarding state file exists,
\* read_onboarding_state succeeds and returns the structural default.
C2_FreshReadIsDefault ==
    (result.op = "read_onboarding_state" /\ ~Exists(onboardingFile))
        => (result.ok /\ IsStructuralDefault(result.val))

\* C2, amended: whenever the home directory is resolvable and no onboarding
\* state file exists (or none that exists() sees), read_onboarding_state
\* succeeds and returns the structural default.
C2_FreshReadIsDefaultWithHome ==
    (result.op = "read_onboarding_state" /\ home /\ ~Exists(onboardingFile))
        => (result.ok /\ IsStructuralDefault(result.val))

\* a read in an environment that has not even the directory
C2_Witness ==
    /\ result.op = "read_onboarding_state"
    /\ home
    /\ macbotDir = "absent"
    /\ result.ok

\* C3 as claimed: a read_onboarding_state while the file holds a text that
\* is not an OnboardingState fails with the serde_json error, and leaves the
\* file as it was.
C3_CorruptIsReported ==
    [][(/\ result'.op = "read_onboarding_state"
        /\ TextOnDisk(onboardingFile)
        /\ onboardingFile.text \in CorruptTexts)
       => (/\ ~result'.ok
           /\ result'.err = "serde_json"
           /\ onboardingFile' = onboardingFile
           /\ macbotDir' = macbotDir)]_vars

\* a read returned the default document while the file holds "{not json",
\* in a directory the caller may not search
C3_Witness ==
    /\ result.op = "read_onboarding_state"
    /\ result.ok
    /\ IsStructuralDefault(result.val)
    /\ TextOnDisk(onboardingFile)
    /\ onboardingFile.text = TextNotJson

\* C4 as claimed: a successful write_config(c) leaves exactly c in the file,
\* and a read_config that follows it returns exactly c.
C4_ConfigVerbatim ==
    [][/\ (result'.op = "write_config" /\ result'.ok)
          => (envFile'.kind = "file" /\ envFile'.utf8 /\ envFile'.text = result'.arg)
       /\ (result.op = "write_config" /\ result.ok /\ result'.op = "read_config")
          => (result'.ok /\ result'.val = result.arg)]_vars

\* C4, amended: a successful write_config(c) leaves exactly c in the file,
\* and a read_config that follows it returns exactly c when the caller may
\* read the file; when the caller may not read the file it fails with the
\* I/O error.
C4_ConfigVerbatimIfReadable ==
    [][/\ (result'.op = "write_config" /\ result'.ok)
          => (envFile'.kind = "file" /\ envFile'.utf8 /\ envFile'.text = result'.arg)
       /\ (result.op = "write_config" /\ result.ok /\ result'.op = "read_config")
          => IF envFile.r
             THEN result'.ok /\ result'.val = result.arg
             ELSE ~result'.ok /\ result'.err = "io"]_vars

\* a read returned a two-line-break string right after it was written
C4_Witness ==
    /\ result.op = "read_config"
    /\ prev = [op |-> "write_config", ok |-> TRUE]
    /\ result.ok
    /\ result.val = <<"\n", "\n">>

\* C5: with a resolvable home directory and no config file, read_config
\* returns Ok with the empty string and creates nothing.
C5_MissingConfigIsEmpty ==
    [][(result'.op = "read_config" /\ home /\ ~Exists(envFile))
       => (/\ result'.ok
           /\ result'.val = <<>>
           /\ envFile' = envFile
           /\ macbotDir' = macbotDir
           /\ perms' = perms)]_vars

\* a read found the directory but no config file in it
C5_Witness ==
    /\ result.op = "read_config"
    /\ home
    /\ macbotDir = "dir"
    /\ envFile.kind = "absent"
    /\ result.ok

\* C6 as claimed: a file that holds a document written without
\* data.dev_tools is read successfully: the result is that document with
\* dev_tools at its default.
C6_DevToolsDefaulted ==
    \A d \in NoDevToolsDocs :
       (/\ result.op = "read_onboarding_state"
        /\ TextOnDisk(onboardingFile)
        /\ onboardingFile.text = TextNoDevTools(d))
       => (/\ result.ok
           /\ IsDevToolsDefault(result.val.data.dev_tools)
           /\ result.val.version = d.version
           /\ result.val.completed = d.completed
           /\ result.val.current_step = d.current_step
           /\ result.val.data.permissions = d.data.permissions
           /\ result.val.data.api_key = d.data.api_key
           /\ result.val.data.telegram = d.data.telegram)

\* C6, amended: a file that holds a document written without
\* data.dev_tools, and whose text the program gets, is read successfully:
\* the result is that document with dev_tools at its default.
C6_DevToolsDefaultedIfRead ==
    \A d \in NoDevToolsDocs :
       (/\ result.op = "read_onboarding_state"
        /\ ReadableText(onboardingFile)
        /\ onboardingFile.text = TextNoDevTools(d))
       => (/\ result.ok
           /\ IsDevToolsDefault(result.val.data.dev_tools)
           /\ result.val.version = d.version
           /\ result.val.completed = d.completed
           /\ result.val.current_step = d.current_step
           /\ result.val.data.permissions = d.data.permissions
           /\ result.val.data.api_key = d.data.api_key
           /\ result.val.data.telegram = d.data.telegram)

\* the scenario of the completed wizard was read from a file
C6_Witness ==
    /\ result.op = "read_onboarding_state"
    /\ result.ok
    /\ onboardingFile = File(TextNoDevTools(CompletedState))
    /\ result.val.completed
    /\ result.val.data.dev_tools.skipped = FALSE

\* s without the white space at its two ends
Stripped(s) ==
    LET keep == {i \in 1..Len(s) : s[i] \notin WhiteSpace}
    IN  IF keep = {} THEN <<>>
        ELSE SubSeq(s, CHOOSE i \in keep : \A j \in keep : i <= j,
                       CHOOSE i \in keep : \A j \in keep : j <= i)

Unsigned(t) == IF t # <<>> /\ t[1] \in {"+", "-"} THEN Tail(t) ELSE t

\* the digits of a decimal numeral without its leading zeros
Magnitude(t) ==
    LET u == Unsigned(t)
        nz == {i \in 1..Len(u) : u[i] # "0"}
    IN  IF nz = {} THEN <<"0">>
        ELSE SubSeq(u, CHOOSE i \in nz : \A j \in nz : i <= j, Len(u))

\* a <= b for two numerals without leading zeros
NumeralLeq(a, b) ==
    \/ Len(a) < Len(b)
    \/ /\ Len(a) = Len(b)
       /\ \/ a = b
          \/ \E i \in 1..Len(a) :
                /\ \A j \in 1..(i - 1) : a[j] = b[j]
                /\ \E x, y \in 1..10 : x < y /\ Digits[x] = a[i] /\ Digits[y] = b[i]

\* t writes a process id: a decimal integer, with or without a sign, from
\* -2147483648 to 2147483647
IsProcessId(t) ==
    /\ Unsigned(t) # <<>>
    /\ \A i \in 1..Len(Unsigned(t)) : Unsigned(t)[i] \in DigitChars
    /\ IF t[1] = "-"
       THEN NumeralLeq(Magnitude(t), <<"2", "1", "4", "7", "4", "8", "3", "6", "4", "8">>)
       ELSE NumeralLeq(Magnitude(t), <<"2", "1", "4", "7", "4", "8", "3", "6", "4", "7">>)

\* the decimal numeral of the integer t writes
Numeral(t) ==
    IF t[1] = "-" /\ Magnitude(t) # <<"0">> THEN <<"-">> \o Magnitude(t)
    ELSE Magnitude(t)

\* the program gets the text of the PID record and its trimmed content is a
\* process id
HasProcessId ==
    /\ home
    /\ ReadableText(pidFile)
    /\ IsProcessId(Stripped(pidFile.text))

FilesUnchanged ==
    UNCHANGED <<macbotDir, onboardingFile, envFile, pidFile, perms>>

\* this step is the call of the cleanup
CleanupBegins ==
    pc = "idle" /\ (pc' = "kill" \/ result'.op = "stop_service_if_running")

\* this step is the last one of a cleanup
CleanupEnds == pc # "idle" /\ pc' = "idle"

\* one kill command was run in this step, with the argument arg
OneKill(arg) ==
    /\ Len(kills') = Len(kills) + 1
    /\ SubSeq(kills', 1, Len(kills)) = kills
    /\ kills'[Len(kills')].arg = arg

\* C7: a cleanup that finds no PID record, or one whose trimmed content is
\* not a process id, runs no kill, changes no file and returns at once and
\* normally; a kill is run only by a cleanup that found a process id.
C7_NoRecordNoSignal ==
    [][/\ (CleanupBegins /\ ~HasProcessId)
          => (/\ pc' = "idle"
              /\ result'.op = "stop_service_if_running"
              /\ result'.ok
              /\ kills' = kills
              /\ FilesUnchanged)
       /\ (CleanupBegins /\ pc' = "kill") => HasProcessId
       /\ kills' # kills => pc = "kill"]_vars

\* a cleanup has returned, ran no kill and left an existing record behind
C7_Witness ==
    /\ result.op = "stop_service_if_running"
    /\ result.ok
    /\ pc = "idle"
    /\ kills = <<>>
    /\ pidFile = File(<<"7", "x">>)

\* C8 as claimed: a cleanup that finds a PID record whose trimmed content is
\* the process id p runs kill once, with p as its argument, then removes the
\* record whatever the kill did, and returns normally.
C8_KillOnceThenRemove ==
    [][/\ (CleanupBegins /\ HasProcessId)
          => (/\ pc' = "kill"
              /\ I32ToString(pid') = Numeral(Stripped(pidFile.text))
              /\ kills' = kills)
       /\ (pc = "kill" /\ kills' # kills)
          => (OneKill(I32ToString(pid)) /\ pc' = "remove")
       /\ (pc = "remove" /\ CleanupEnds)
          => (/\ kills' = kills
              /\ ~Exists(pidFile)'
              /\ result'.op = "stop_service_if_running"
              /\ result'.ok)]_vars

\* C9 as claimed: whenever the cleanup runs while a PID record file exists,
\* whatever text it holds, the record no longer exists when it returns.
C9_RecordAlwaysRemoved ==
    [][(/\ CleanupBegins
        /\ home
        /\ ReadableText(pidFile)
        /\ pc' = "idle")
       => ~Exists(pidFile)']_vars

\* C9, amended: a cleanup that finds a PID record of which it does not get a
\* process id returns at once and leaves the record as it was; one that gets
\* a process id goes on to the kill and, when it returns, no record exists
\* if the caller may remove entries of the directory, and the record is as
\* it was if not; when it does not return, because the signal of its kill
\* ended the application, the record is left as it was.
C9_RecordRemovedIfProcessId ==
    [][/\ (CleanupBegins /\ home /\ Exists(pidFile) /\ ~HasProcessId)
          => (pc' = "idle" /\ result'.ok /\ pidFile' = pidFile)
       /\ (CleanupBegins /\ HasProcessId) => (pc' = "kill" /\ pidFile' = pidFile)
       /\ (CleanupEnds /\ result'.ok)
          => (/\ pc = "remove"
              /\ IF "w" \in perms.dir THEN ~Exists(pidFile)' ELSE pidFile' = pidFile)
       /\ (CleanupEnds /\ ~result'.ok)
          => (/\ pc = "kill"
              /\ OneKill(I32ToString(pid))
              /\ pidFile' = pidFile)]_vars

\* the cleanup consumed the record of a negative number
C9_Witness ==
    /\ result.op = "stop_service_if_running"
    /\ result.ok
    /\ pc = "idle"
    /\ Len(kills) = 1
    /\ kills[1].arg = <<"-", "7">>
    /\ pidFile.kind = "absent"

\* C10 as claimed: a cleanup that directly follows a cleanup runs no kill,
\* changes no file and returns normally.
C10_SecondCleanupIdle ==
    [][(result.op = "stop_service_if_running" /\ CleanupBegins)
       => (/\ pc' = "idle"
           /\ kills' = kills
           /\ FilesUnchanged
           /\ result'.ok)]_vars

====
